---- MODULE Spec2Model ----
(***************************************************************************)
(* A model of the iso-canonical RDF dataset algorithm of                   *)
(* iherman/canonical_rdf: lib/Hash.js, lib/HashTable.js, lib/Dataset.js    *)
(* and lib/iso_canonical.js.                                               *)
(*                                                                         *)
(* Terms are the strings N3.js hands to the algorithm, written here in     *)
(* their N-Quads form ("<p>", "_:b1"); the absent graph is "".  A Buffer   *)
(* is a sequence of byte codes.  md5 is taken to be collision free: the    *)
(* digest of a buffer is written as the buffer between the two codes 254   *)
(* and 255, which no other byte of the model uses.                         *)
(***************************************************************************)
EXTENDS Integers, Sequences, FiniteSets, TLC

(***************************************************************************)
(* Bounds of the model.                                                    *)
(***************************************************************************)
MaxBlank == 3

MaxQuads == 2

MaxRepeat == 1

MaxGraphQuads == 1

\* hashBnodes_loop is not followed beyond MaxIterations passes of one call
MaxIterations == 4

\* the calls of the constructor, of setHash and of clone on HashTable objects
MaxCalls == 5

\* the HashTable objects constructed or cloned
MaxTables == 2

(***************************************************************************)
(* State of a run.                                                         *)
(***************************************************************************)
VARIABLES
    G,           \* the Dataset handed to isoCanonicalize
    pc,          \* where the run stands
    hash,        \* hashBnodes: the parameter `hash`
    hashIm1,     \* hashBnodes: the table of the previous iteration
    hashI,       \* hashBnodes: the table of the current iteration
    iterations,  \* hashBnodes: loop bodies executed in the current call
    hash_bag,    \* hashBnodes: the HashBag of the current pass of the loop
    retval,      \* hashBnodes: the value of the return statement
    stack,       \* the active calls of distinguish, innermost last
    result,      \* what isoCanonicalize returned, <<>> while it has not
    candidates,  \* history: the datasets relabelled at trivial leaves
    calls,       \* history: number of calls of distinguish in this run
    reference,   \* driver: the sorted N-Quads of the previous run
    relation,    \* driver: how G was obtained from the previous input
    heap         \* the HashTable objects of the reference-level model

vars == <<G, pc, hash, hashIm1, hashI, iterations, hash_bag, retval, stack,
          result, candidates, calls, reference, relation, heap>>

(***************************************************************************)
(* Terms.                                                                  *)
(***************************************************************************)
C14N == "_:c14n_"

NoGraph == ""

IRIs == <<"<g>", "<o>", "<p>", "<s>">>

BlankLabel(i) == "_:b" \o ToString(i)

CanonLabel(k) == C14N \o ToString(k)

SourceBlanks == {BlankLabel(i) : i \in 1..MaxBlank}

CanonBlanks == {CanonLabel(k) : k \in 0..MaxBlank}

\* n3util.isBlank: the term starts with "_:"
isBlank(term) == term \in SourceBlanks \cup CanonBlanks

\* All terms of the model in the order of JavaScript string comparison
\* ('<' is 0x3C, '_' is 0x5F, 'b' < 'c'; labels carry one digit).
TermOrder ==
    IRIs \o [i \in 1..MaxBlank |-> BlankLabel(i)]
         \o [k \in 1..(MaxBlank + 1) |-> CanonLabel(k - 1)]

termRank(term) == CHOOSE i \in 1..Len(TermOrder) : TermOrder[i] = term

\* JavaScript comparison of two terms as strings
stringCompare(a, b) ==
    IF termRank(a) < termRank(b) THEN -1 ELSE IF termRank(a) > termRank(b) THEN 1 ELSE 0

(***************************************************************************)
(* Generic helpers standing for underscore / Array functions.              *)
(***************************************************************************)
Range(s) == {s[i] : i \in DOMAIN s}

includes(s, e) == \E i \in DOMAIN s : s[i] = e

\* _.without(array, value)
without(s, e) == SelectSeq(s, LAMBDA x : x # e)

\* _.findIndex, 1-based, over the set `hits` of the indices at which the
\* predicate holds; 0 stands for JavaScript's -1
findIndex(hits) ==
    IF hits = {} THEN 0 ELSE CHOOSE i \in hits : \A j \in hits : i <= j

\* _.uniq: keeps the first occurrence of every element
uniq(s) ==
    LET keep == {i \in DOMAIN s : \A j \in 1..(i - 1) : s[j] # s[i]}
        F[i \in 0..Len(s)] ==
            IF i = 0 THEN <<>>
            ELSE IF i \in keep THEN Append(F[i - 1], s[i]) ELSE F[i - 1]
    IN  F[Len(s)]

\* Array.prototype.sort(compare): a stable sort.  compare[i, j] is what the
\* comparison function returns for s[i] and s[j]: -1, 0 or 1.  The elements
\* are inserted one by one, each behind the ones not above it.
sort(s, compare) ==
    LET insert(done, n) ==
            LET k == Cardinality({i \in DOMAIN done : compare[done[i], n] <= 0})
            IN  SubSeq(done, 1, k) \o <<n>> \o SubSeq(done, k + 1, Len(done))
        F[n \in 0..Len(s)] ==
            IF n = 0 THEN <<>> ELSE insert(F[n - 1], n)
        order == F[Len(s)]
    IN  [i \in DOMAIN s |-> s[order[i]]]

(***************************************************************************)
(* lib/Hash.js                                                             *)
(***************************************************************************)
\* length of an md5 digest in bytes
sh_length == 16

\* Buffer.from(string): the bytes of a role marker are its ASCII code, the
\* bytes of a term are one code per term of the model
Buffer_from(str) ==
    CASE str = "+" -> <<43>>
      [] str = "-" -> <<45>>
      [] str = "." -> <<46>>
      [] str = "@" -> <<64>>
      [] OTHER     -> <<100 + termRank(str)>>

\* Buffer.from(array) with an array of HashValue objects: every entry is
\* converted to a number, an object gives NaN, and NaN is stored as byte 0
Buffer_from_array(array) == [i \in 1..Len(array) |-> 0]

\* crypto.createHash(SHA).update(data).digest()
digest(data) == <<254>> \o data \o <<255>>

isDigest(h) == h # <<>> /\ h[1] = 254

\* hashTerm(): Buffer.alloc(sh_length), the zero hash
hashZero == [i \in 1..sh_length |-> 0]

\* hashTerm(data) with data a string or a Buffer
hashTerm(data) == digest(data)

\* Buffer.concat
RECURSIVE Buffer_concat(_)
Buffer_concat(buffers) ==
    IF buffers = <<>> THEN <<>>
    ELSE Head(buffers) \o Buffer_concat(Tail(buffers))

\* hashTuple(...data): `buffers` is the list the map of line 118 produces,
\* d.value for a HashValue and Buffer.from(d) for anything else
hashTuple(buffers) == hashTerm(Buffer_concat(buffers))

\* the first index at which two sequences differ, 0 when one is a prefix of
\* the other
firstDifference(a, b) ==
    LET n == IF Len(a) < Len(b) THEN Len(a) ELSE Len(b)
    IN  IF a = b \/ SubSeq(a, 1, n) = SubSeq(b, 1, n) THEN 0
        ELSE CHOOSE i \in 1..n : a[i] # b[i] /\ SubSeq(a, 1, i - 1) = SubSeq(b, 1, i - 1)

\* Buffer.compare: bytewise lexicographic comparison
Buffer_compare(a, b) ==
    LET i == firstDifference(a, b)
    IN  IF i = 0
        THEN (IF Len(a) < Len(b) THEN -1 ELSE IF Len(a) > Len(b) THEN 1 ELSE 0)
        ELSE IF a[i] < b[i] THEN -1 ELSE 1

\* HashValue.hashCompare: Buffer.compare of the two values.  The zero hash
\* is below every digest.  The digests whose order decides a partition or a
\* labelling are md5(zero hash, "@") = a5.. and md5(that, "@") = c0..; the
\* codes of the model order them as md5 does.
hashCompare(h1, h2) == Buffer_compare(h1, h2)

hashEqual(h1, h2) == hashCompare(h1, h2) = 0

(***************************************************************************)
(* lib/Hash.js: class HashBag.  _values is an object, modelled as the list *)
(* of its keys in insertion order with the array of each key.              *)
(***************************************************************************)
HashBag_new == <<>>

HashBag_has(bag, b) == \E i \in DOMAIN bag : bag[i].key = b

HashBag_init(bag, b, val) ==
    IF HashBag_has(bag, b) THEN bag
    ELSE Append(bag, [key |-> b, values |-> <<val>>])

HashBag_addValue(bag, b, val) ==
    [i \in DOMAIN bag |->
        IF bag[i].key = b
        THEN [bag[i] EXCEPT !.values = Append(@, val)]
        ELSE bag[i]]

\* value(b): hashTuple is called with ONE argument, the sorted array, which
\* is not a HashValue and so goes through Buffer.from(array)
HashBag_value(bag, b) ==
    LET i      == CHOOSE k \in DOMAIN bag : bag[k].key = b
        array  == bag[i].values
        sorted == sort(array, [m, n \in DOMAIN array |-> hashCompare(array[m], array[n])])
    IN  hashTuple(<<Buffer_from_array(sorted)>>)

HashBag_keys(bag) == [i \in DOMAIN bag |-> bag[i].key]

(***************************************************************************)
(* lib/HashTable.js: class HashTable.  The objects _term_to_hash and        *)
(* _bnode_to_hash are lists of key/value pairs in insertion order.         *)
(***************************************************************************)
HashTable_new ==
    [_hash_values |-> <<>>, _term_to_hash |-> <<>>, _bnode_to_hash |-> <<>>]

\* obj[key] = value on an object kept as a list of key/value pairs
put(obj, key, value) ==
    IF \E i \in DOMAIN obj : obj[i].key = key
    THEN [i \in DOMAIN obj |->
            IF obj[i].key = key THEN [key |-> key, value |-> value] ELSE obj[i]]
    ELSE Append(obj, [key |-> key, value |-> value])

\* obj[key]
get(obj, key) ==
    LET i == CHOOSE k \in DOMAIN obj : obj[k].key = key IN obj[i].value

has(obj, key) == \E i \in DOMAIN obj : obj[i].key = key

setHash(table, term, h) ==
    LET stripped ==
            [i \in DOMAIN table._hash_values |->
                [table._hash_values[i] EXCEPT !.terms = without(@, term)]]
        compacted == SelectSeq(stripped, LAMBDA tuple : Len(tuple.terms) # 0)
        index == findIndex({i \in DOMAIN compacted : hashEqual(compacted[i].hash, h)})
        values ==
            IF index = 0
            THEN Append(compacted, [hash |-> h, terms |-> <<term>>])
            ELSE [compacted EXCEPT ![index].terms =
                    IF includes(@, term) THEN @ ELSE Append(@, term)]
    IN  [_hash_values   |-> values,
         _term_to_hash  |-> put(table._term_to_hash, term, h),
         _bnode_to_hash |-> IF isBlank(term)
                            THEN put(table._bnode_to_hash, term, h)
                            ELSE table._bnode_to_hash]

getHash(table, term) == get(table._term_to_hash, term)

\* clone(): the redundant maps are rebuilt from _hash_values
clone(table) ==
    LET hv == table._hash_values
        entries ==
            Buffer_concat([i \in DOMAIN hv |->
                [j \in DOMAIN hv[i].terms |->
                    [key |-> hv[i].terms[j], value |-> hv[i].hash]]])
        F[n \in 0..Len(entries)] ==
            IF n = 0 THEN [t2h |-> <<>>, b2h |-> <<>>]
            ELSE LET memo == F[n - 1]
                 IN  [t2h |-> put(memo.t2h, entries[n].key, entries[n].value),
                      b2h |-> IF isBlank(entries[n].key)
                              THEN put(memo.b2h, entries[n].key, entries[n].value)
                              ELSE memo.b2h]
    IN  [_hash_values   |-> [i \in DOMAIN hv |->
                                [hash |-> hv[i].hash, terms |-> hv[i].terms]],
         _term_to_hash  |-> F[Len(entries)].t2h,
         _bnode_to_hash |-> F[Len(entries)].b2h]

\* a variant of order_terms: groups of the same size are not compared by
\* their hashes
order_terms_compare_sizeOnly(a, b) ==
    IF Len(a.terms) < Len(b.terms) THEN -1
    ELSE IF Len(a.terms) > Len(b.terms) THEN 1
    ELSE 0

\* the comparison function of order_terms
order_terms_compare(a, b) ==
    IF Len(a.terms) < Len(b.terms) THEN -1
    ELSE IF Len(a.terms) > Len(b.terms) THEN 1
    ELSE hashCompare(a.hash, b.hash)

\* a variant of hashPartition: the test of the filter is negated, the terms
\* kept are the ones that are not blank nodes
hashPartition_nonBlank(table) ==
    LET hv == table._hash_values
        others == [i \in DOMAIN hv |->
                     [hash  |-> hv[i].hash,
                      terms |-> SelectSeq(hv[i].terms, LAMBDA t : ~isBlank(t))]]
        kept == SelectSeq(others, LAMBDA tuple : Len(tuple.terms) # 0)
        ordered == sort(kept, [i, j \in DOMAIN kept |->
                                  order_terms_compare(kept[i], kept[j])])
    IN  [i \in DOMAIN ordered |-> ordered[i].terms]

hashPartition(table) ==
    LET hv == table._hash_values
        onlyBlank == [i \in DOMAIN hv |->
                        [hash  |-> hv[i].hash,
                         terms |-> SelectSeq(hv[i].terms, isBlank)]]
        b_hash_values == SelectSeq(onlyBlank, LAMBDA tuple : Len(tuple.terms) # 0)
        ordered == sort(b_hash_values,
                        [i, j \in DOMAIN b_hash_values |->
                            order_terms_compare(b_hash_values[i], b_hash_values[j])])
    IN  [i \in DOMAIN ordered |-> ordered[i].terms]

\* compare_ht of isFixpoint
compare_ht(left, right) ==
    LET keys == [i \in DOMAIN left._bnode_to_hash |-> left._bnode_to_hash[i].key]
    IN  \A i \in 1..(Len(keys) - 1) : \A j \in (i + 1)..Len(keys) :
            hashEqual(get(left._bnode_to_hash, keys[i]),
                      get(left._bnode_to_hash, keys[j]))
            => hashEqual(get(right._bnode_to_hash, keys[i]),
                         get(right._bnode_to_hash, keys[j]))

\* a variant of isTrivial: as many hash values as blank nodes
isTrivial_countsBlanks(table) ==
    Len(table._hash_values) = Len(table._bnode_to_hash)

isTrivial(table) ==
    ~ \E i \in DOMAIN table._hash_values : Len(table._hash_values[i].terms) # 1

\* a variant of isFixpoint: every blank node has the hash it had before
isFixpoint_sameHashes(table, hprevious) ==
    \A i \in DOMAIN table._bnode_to_hash :
        hashEqual(table._bnode_to_hash[i].value,
                  get(hprevious._bnode_to_hash, table._bnode_to_hash[i].key))

\* a variant of isFixpoint: the tables are compared in one direction only
isFixpoint_oneWay(table, hprevious) ==
    IF \E i \in DOMAIN table._hash_values : Len(table._hash_values[i].terms) # 1
    THEN compare_ht(table, hprevious)
    ELSE TRUE

\* a variant of isFixpoint: only a trivial table is a fixed point
isFixpoint_trivialOnly(table, hprevious) ==
    ~ \E i \in DOMAIN table._hash_values : Len(table._hash_values[i].terms) # 1

isFixpoint(table, hprevious) ==
    IF \E i \in DOMAIN table._hash_values : Len(table._hash_values[i].terms) # 1
    THEN compare_ht(table, hprevious) /\ compare_ht(hprevious, table)
    ELSE TRUE

\* a variant of pairs_compare: the pairs are compared by their labels, the
\* second against the first
pairs_compare_labels(p1, p2) == stringCompare(p2.key, p1.key)

pairs_compare(p1, p2) == hashCompare(p1.value, p2.value)

\* a variant of orderedBlankIDs: the pairs are sorted by label, not by hash
orderedBlankIDs_byLabel(table) ==
    LET all   == table._bnode_to_hash
        pairs == sort(all, [i, j \in DOMAIN all |-> stringCompare(all[i].key, all[j].key)])
    IN  [i \in DOMAIN pairs |-> pairs[i].key]

orderedBlankIDs(table) ==
    LET all   == table._bnode_to_hash
        pairs == sort(all, [i, j \in DOMAIN all |-> pairs_compare(all[i], all[j])])
    IN  [i \in DOMAIN pairs |-> pairs[i].key]

(***************************************************************************)
(* lib/HashTable.js with the objects of JavaScript.  A heap holds the      *)
(* HashTable objects, the {hash, terms} objects of _hash_values and the    *)
(* `terms` arrays; a reference is the index of the object in its list.     *)
(* _hash_values is the list of the references of its tuples, a tuple holds *)
(* the reference of its array.  _term_to_hash and _bnode_to_hash are       *)
(* created by the constructor and belong to one table.  `log` is the       *)
(* history of the calls made.                                              *)
(***************************************************************************)
Heap_new == [tables |-> <<>>, tuples |-> <<>>, arrays |-> <<>>, log |-> <<>>]

\* what the fields of the HashTable object t hold, references followed
HashTableOf(h, t) ==
    LET table == h.tables[t]
    IN  [_hash_values   |->
            [i \in DOMAIN table._hash_values |->
                LET tuple == h.tuples[table._hash_values[i]]
                IN  [hash |-> tuple.hash, terms |-> h.arrays[tuple.terms]]],
         _term_to_hash  |-> table._term_to_hash,
         _bnode_to_hash |-> table._bnode_to_hash]

\* new HashTable()
heap_HashTable(h) == [h EXCEPT !.tables = Append(@, HashTable_new)]

\* a variant of setHash: lines 49-60 are left out, the term stays in the
\* group of its former hash
heap_setHash_noRemove(h, t, term, value) ==
    LET table == h.tables[t]
        hv == table._hash_values
        index == findIndex({i \in DOMAIN hv : hashEqual(h.tuples[hv[i]].hash, value)})
        found == h.tuples[hv[index]].terms
    IN  [h EXCEPT
           !.arrays = IF index = 0 THEN Append(@, <<term>>)
                      ELSE IF includes(@[found], term) THEN @
                      ELSE [@ EXCEPT ![found] = Append(@, term)],
           !.tuples = IF index = 0
                      THEN Append(@, [hash |-> value, terms |-> Len(h.arrays) + 1])
                      ELSE @,
           !.tables[t] =
              [_hash_values   |-> IF index = 0 THEN Append(hv, Len(h.tuples) + 1)
                                  ELSE hv,
               _term_to_hash  |-> put(table._term_to_hash, term, value),
               _bnode_to_hash |-> IF isBlank(term)
                                  THEN put(table._bnode_to_hash, term, value)
                                  ELSE table._bnode_to_hash]]

\* setHash(term, value) on the HashTable object t.  Lines 49-60 give every
\* tuple of the table a new array (_.without) and keep the tuples whose
\* array is not empty; lines 68-83 push the term on the array of the first
\* tuple with the hash, or push a new tuple on _hash_values.
heap_setHash(h, t, term, value) ==
    LET table == h.tables[t]
        hv == table._hash_values
        fresh == [k \in DOMAIN hv |-> without(h.arrays[h.tuples[hv[k]].terms], term)]
        arrays == h.arrays \o fresh
        last(r) == CHOOSE k \in DOMAIN hv :
                      hv[k] = r /\ \A m \in DOMAIN hv : hv[m] = r => m <= k
        tuples == [r \in DOMAIN h.tuples |->
                     IF \E k \in DOMAIN hv : hv[k] = r
                     THEN [h.tuples[r] EXCEPT !.terms = Len(h.arrays) + last(r)]
                     ELSE h.tuples[r]]
        kept == SelectSeq([k \in DOMAIN hv |-> k], LAMBDA k : Len(fresh[k]) # 0)
        compacted == [i \in DOMAIN kept |-> hv[kept[i]]]
        index == findIndex({i \in DOMAIN compacted :
                               hashEqual(tuples[compacted[i]].hash, value)})
        found == tuples[compacted[index]].terms
    IN  [h EXCEPT
           !.arrays = IF index = 0 THEN Append(arrays, <<term>>)
                      ELSE IF includes(arrays[found], term) THEN arrays
                      ELSE [arrays EXCEPT ![found] = Append(@, term)],
           !.tuples = IF index = 0
                      THEN Append(tuples, [hash |-> value, terms |-> Len(arrays) + 1])
                      ELSE tuples,
           !.tables[t] =
              [_hash_values   |-> IF index = 0
                                  THEN Append(compacted, Len(tuples) + 1)
                                  ELSE compacted,
               _term_to_hash  |-> put(table._term_to_hash, term, value),
               _bnode_to_hash |-> IF isBlank(term)
                                  THEN put(table._bnode_to_hash, term, value)
                                  ELSE table._bnode_to_hash]]

\* a variant of clone: the callback of _.map returns the tuple itself, the
\* two tables hold the same {hash, terms} objects
heap_clone_sameTuples(h, t) ==
    LET maps == clone(HashTableOf(h, t))
    IN  [h EXCEPT
           !.tables = Append(@, [_hash_values   |-> h.tables[t]._hash_values,
                                 _term_to_hash  |-> maps._term_to_hash,
                                 _bnode_to_hash |-> maps._bnode_to_hash])]

\* clone() of the HashTable object t: a new table whose _hash_values holds
\* a new tuple with a new array for every tuple of t (lines 118-128)
heap_clone(h, t) ==
    LET hv == h.tables[t]._hash_values
        maps == clone(HashTableOf(h, t))
    IN  [h EXCEPT
           !.arrays = @ \o [k \in DOMAIN hv |-> h.arrays[h.tuples[hv[k]].terms]],
           !.tuples = @ \o [k \in DOMAIN hv |->
                              [hash  |-> h.tuples[hv[k]].hash,
                               terms |-> Len(h.arrays) + k]],
           !.tables = Append(@, [_hash_values   |-> [k \in DOMAIN hv |->
                                                       Len(h.tuples) + k],
                                 _term_to_hash  |-> maps._term_to_hash,
                                 _bnode_to_hash |-> maps._bnode_to_hash])]

(***************************************************************************)
(* lib/Dataset.js: class Dataset, modelled as its array of quads.  A line  *)
(* of N-Quads is the list of the terms it writes; the graph is left out    *)
(* when there is none.                                                     *)
(***************************************************************************)
Quad(s, p, o, g) == [subject |-> s, predicate |-> p, object |-> o, graph |-> g]

\* get terms: flatten, compact (drops the absent graph), uniq
terms(D) ==
    LET flat == Buffer_concat([i \in DOMAIN D |->
                    <<D[i].subject, D[i].predicate, D[i].object, D[i].graph>>])
    IN  uniq(SelectSeq(flat, LAMBDA t : t # NoGraph))

\* one line of the N3 writer: "s p o.", or "s p o g." for a quad in a graph
nquad(quad) ==
    IF quad.graph # NoGraph
    THEN <<quad.subject, quad.predicate, quad.object, quad.graph>>
    ELSE <<quad.subject, quad.predicate, quad.object>>

nquads(D) == [i \in DOMAIN D |-> nquad(D[i])]

\* JavaScript comparison of two lines.  Terms compare as their strings do;
\* where one line stops and the other goes on with a graph, the one that
\* stops has '.' where the other has ' ', and so is the greater.
lineCompare(a, b) ==
    LET i == firstDifference(a, b)
    IN  IF i = 0
        THEN (IF Len(a) < Len(b) THEN 1 ELSE IF Len(a) > Len(b) THEN -1 ELSE 0)
        ELSE stringCompare(a[i], b[i])

sorted_nquads(D) ==
    LET lines == nquads(D)
    IN  sort(lines, [i, j \in DOMAIN lines |-> lineCompare(lines[i], lines[j])])

\* _.difference(array, other)
difference(array, other) == SelectSeq(array, LAMBDA x : ~includes(other, x))

isSmaller(G_Dataset, H_Dataset) ==
    LET Gs  == sorted_nquads(G_Dataset)
        Hs  == sorted_nquads(H_Dataset)
        GmH == difference(Gs, Hs)
        HmG == difference(Hs, Gs)
    IN  IF Len(GmH) = 0 THEN TRUE
        ELSE IF Len(HmG) = 0 THEN TRUE
        ELSE \E i \in DOMAIN GmH : lineCompare(GmH[i], HmG[1]) < 0

\* the quads of D with every blank node b written mapping[b]
mapped(D, mapping) ==
    [i \in DOMAIN D |->
        [subject   |-> IF isBlank(D[i].subject)
                       THEN get(mapping, D[i].subject) ELSE D[i].subject,
         predicate |-> D[i].predicate,
         object    |-> IF isBlank(D[i].object)
                       THEN get(mapping, D[i].object) ELSE D[i].object,
         graph     |-> IF D[i].graph # NoGraph /\ isBlank(D[i].graph)
                       THEN get(mapping, D[i].graph) ELSE D[i].graph]]

\* a variant of relabel: the object of a quad is left as it is
relabel_noObject(D, bnodes) ==
    LET F[n \in 0..Len(bnodes)] ==
            IF n = 0 THEN <<>>
            ELSE put(F[n - 1], bnodes[n], C14N \o ToString(n - 1))
        all == mapped(D, F[Len(bnodes)])
    IN  [i \in DOMAIN D |-> [all[i] EXCEPT !.object = D[i].object]]

\* a variant of relabel: the labels are numbered from 1
relabel_fromOne(D, bnodes) ==
    LET F[n \in 0..Len(bnodes)] ==
            IF n = 0 THEN <<>>
            ELSE put(F[n - 1], bnodes[n], C14N \o ToString(n))
    IN  mapped(D, F[Len(bnodes)])

relabel(D, bnodes) ==
    LET F[n \in 0..Len(bnodes)] ==
            IF n = 0 THEN <<>>
            ELSE put(F[n - 1], bnodes[n], C14N \o ToString(n - 1))
    IN  mapped(D, F[Len(bnodes)])

(***************************************************************************)
(* lib/iso_canonical.js: hashBnodes.  ALTERNATIVE_BAG is true, the         *)
(* branches of hashBag are never taken.                                    *)
(***************************************************************************)
\* a variant of lines 33-35: every term is given the zero hash
initialHash_zero(D) ==
    LET ts == terms(D)
        F[n \in 0..Len(ts)] ==
            IF n = 0 THEN HashTable_new
            ELSE setHash(F[n - 1], ts[n], hashZero)
    IN  F[Len(ts)]

\* lines 31-36: the table of a call without `hash`
initialHash(D) ==
    LET ts == terms(D)
        F[n \in 0..Len(ts)] ==
            IF n = 0 THEN HashTable_new
            ELSE setHash(F[n - 1], ts[n],
                         IF isBlank(ts[n]) THEN hashZero
                         ELSE hashTerm(Buffer_from(ts[n])))
    IN  F[Len(ts)]

\* lines 50-65, 66-81, 82-93: one blank position b of a quad receives c
contribute(st, b, c) ==
    [st EXCEPT !.hash_bag =
        HashBag_addValue(HashBag_init(@, b, getHash(st.hashI, b)), b, c)]

\* lines 94-96: every key of the bag is set in hashI
flush(st) ==
    LET keys == HashBag_keys(st.hash_bag)
        F[n \in 0..Len(keys)] ==
            IF n = 0 THEN st.hashI
            ELSE setHash(F[n - 1], keys[n], HashBag_value(st.hash_bag, keys[n]))
    IN  [st EXCEPT !.hashI = F[Len(keys)]]

\* lines 49-97: the body of the forEach for one quad
forQuad(st, quad, prev) ==
    LET s == getHash(prev, quad.subject)
        p == getHash(prev, quad.predicate)
        o == getHash(prev, quad.object)
        afterSubject ==
            IF isBlank(quad.subject)
            THEN contribute(st, quad.subject,
                    IF quad.graph # NoGraph
                    THEN hashTuple(<<o, p, getHash(prev, quad.graph), Buffer_from("+")>>)
                    ELSE hashTuple(<<o, p, Buffer_from("+")>>))
            ELSE st
        afterObject ==
            IF isBlank(quad.object)
            THEN contribute(afterSubject, quad.object,
                    IF quad.graph # NoGraph
                    THEN hashTuple(<<s, p, getHash(prev, quad.graph), Buffer_from("-")>>)
                    ELSE hashTuple(<<s, p, Buffer_from("-")>>))
            ELSE afterSubject
        afterGraph ==
            IF quad.graph # NoGraph /\ isBlank(quad.graph)
            THEN contribute(afterObject, quad.graph,
                    hashTuple(<<s, p, o, Buffer_from(".")>>))
            ELSE afterObject
    IN  flush(afterGraph)

\* lines 45-97: one pass of the do-while body from the table `current`
iteration(D, current) ==
    LET prev == clone(current)
        F[n \in 0..Len(D)] ==
            IF n = 0 THEN [hashI |-> clone(prev), hash_bag |-> HashBag_new]
            ELSE forQuad(F[n - 1], D[n], prev)
        last == F[Len(D)]
    IN  [hashIm1 |-> prev, hashI |-> last.hashI, hash_bag |-> last.hash_bag]

(***************************************************************************)
(* The inputs of the model: datasets over a small vocabulary, either up to  *)
(* MaxQuads triples of the default graph or up to MaxGraphQuads quads of    *)
(* named graphs, the first quad possibly written again MaxRepeat times.     *)
(* Blank nodes are numbered in the order they first appear; the other       *)
(* labellings are the ones the driver reaches by Rename.                    *)
(***************************************************************************)
Subjects == SourceBlanks \cup {"<s>"}

Predicates == {"<p>"}

Objects == SourceBlanks \cup {"<o>"}

Graphs == SourceBlanks \cup {"<g>"}

TriplePool ==
    {Quad(s, p, o, NoGraph) : s \in Subjects, p \in Predicates, o \in Objects}

QuadPool ==
    {Quad(s, p, o, g) : s \in Subjects, p \in Predicates, o \in Objects, g \in Graphs}

blanksOf(D) == SelectSeq(terms(D), isBlank)

numbered(D) == blanksOf(D) = [i \in 1..Len(blanksOf(D)) |-> BlankLabel(i)]

repeated(D, r) == [i \in 1..r |-> D[1]] \o D

Inputs ==
    {repeated(D, r) :
        D \in {X \in UNION ({[1..n -> TriplePool] : n \in 1..MaxQuads}
                             \cup {[1..n -> QuadPool] : n \in 1..MaxGraphQuads}) :
                    numbered(X)},
        r \in 0..MaxRepeat}
    \cup {<<>>}

Bijections(S) == {f \in [S -> S] : \A a, b \in S : f[a] = f[b] => a = b}

\* the dataset with every blank node b written pi[b]
renamed(D, pi) ==
    [i \in DOMAIN D |->
        [subject   |-> IF isBlank(D[i].subject) THEN pi[D[i].subject] ELSE D[i].subject,
         predicate |-> D[i].predicate,
         object    |-> IF isBlank(D[i].object) THEN pi[D[i].object] ELSE D[i].object,
         graph     |-> IF isBlank(D[i].graph) THEN pi[D[i].graph] ELSE D[i].graph]]

\* the dataset with its quads listed in the order sigma
permuted(D, sigma) == [i \in DOMAIN D |-> D[sigma[i]]]

(***************************************************************************)
(* The run of isoCanonicalize, one step per call, loop pass and return.    *)
(***************************************************************************)
Undefined == <<>>

Top == stack[Len(stack)]

\* a variant of line 125: the group taken is the first of the partition,
\* of more than one blank node or not
entered_firstGroup(h, Gmin) ==
    LET P     == hashPartition(h)
        index == findIndex({k \in DOMAIN P : Len(P[k]) > 0})
    IN  [hash |-> h, index |-> index,
         group |-> IF index = 0 THEN <<>> ELSE P[index],
         i |-> 1, Gmin |-> Gmin,
         received |-> h._term_to_hash, tried |-> <<>>]

\* lines 124-127 of distinguish: the partition, the index of its first
\* group of more than one blank node, and the assertion on the index;
\* `received` keeps the hashes of the table as they were at the call,
\* `tried` the blank nodes the forEach has called its function with
entered(h, Gmin) ==
    LET P     == hashPartition(h)
        index == findIndex({k \in DOMAIN P : Len(P[k]) > 1})
    IN  [hash |-> h, index |-> index,
         group |-> IF index = 0 THEN <<>> ELSE P[index],
         i |-> 1, Gmin |-> Gmin,
         received |-> h._term_to_hash, tried |-> <<>>]

startRun(D, rel, ref) ==
    /\ G' = D
    /\ relation' = rel
    /\ reference' = ref
    /\ pc' = "start"
    /\ hash' = HashTable_new
    /\ hashIm1' = HashTable_new
    /\ hashI' = HashTable_new
    /\ iterations' = 0
    /\ hash_bag' = HashBag_new
    /\ retval' = HashTable_new
    /\ stack' = <<>>
    /\ result' = Undefined
    /\ candidates' = {}
    /\ calls' = 0
    /\ heap' = heap

Init ==
    /\ G \in Inputs
    /\ relation = "first"
    /\ reference = <<>>
    /\ pc = "start"
    /\ hash = HashTable_new
    /\ hashIm1 = HashTable_new
    /\ hashI = HashTable_new
    /\ iterations = 0
    /\ hash_bag = HashBag_new
    /\ retval = HashTable_new
    /\ stack = <<>>
    /\ result = Undefined
    /\ candidates = {}
    /\ calls = 0
    /\ heap = Heap_new

\* hashBnodes lines 29-42, entered with the table h (already initialised)
callHashBnodes(h) ==
    /\ hash' = h
    /\ hashI' = h
    /\ hashIm1' = HashTable_new
    /\ iterations' = 0
    /\ hash_bag' = HashBag_new
    /\ pc' = "loop"

\* isoCanonicalize line 165: hashBnodes(G) without a table
isoCanonicalize_call ==
    /\ pc = "start"
    /\ callHashBnodes(initialHash(G))
    /\ UNCHANGED <<heap, G, retval, stack, result, candidates, calls,
                   reference, relation>>

\* hashBnodes lines 44-99: one pass of the loop, its test, and the return
hashBnodes_loop ==
    /\ pc = "loop"
    /\ iterations < MaxIterations
    /\ LET it == iteration(G, hashI)
       IN  /\ hashIm1' = it.hashIm1
           /\ hashI' = it.hashI
           /\ iterations' = iterations + 1
           /\ hash_bag' = it.hash_bag
           /\ IF isFixpoint(it.hashI, it.hashIm1)
              THEN pc' = "return" /\ retval' = hash
              ELSE pc' = "loop" /\ UNCHANGED retval
    /\ UNCHANGED <<heap, G, hash, stack, result, candidates, calls,
                   reference, relation>>

\* distinguish lines 122-127, called with the table h and Gmin
callDistinguish(h, Gmin) ==
    LET frame == entered(h, Gmin)
    IN  /\ stack' = Append(stack, frame)
        /\ calls' = calls + 1
        /\ pc' = IF frame.index = 0 THEN "assertion failed" ELSE "forEach"

\* isoCanonicalize lines 166-168
isoCanonicalize_trivial ==
    /\ pc = "return"
    /\ stack = <<>>
    /\ isTrivial(retval)
    /\ result' = <<relabel(G, orderedBlankIDs(retval))>>
    /\ pc' = "done"
    /\ UNCHANGED <<heap, G, hash, hashIm1, hashI, iterations, hash_bag, retval, stack,
                   candidates, calls, reference, relation>>

\* isoCanonicalize lines 169-173
isoCanonicalize_distinguish ==
    /\ pc = "return"
    /\ stack = <<>>
    /\ ~isTrivial(retval)
    /\ callDistinguish(retval, Undefined)
    /\ UNCHANGED <<heap, G, hash, hashIm1, hashI, iterations, hash_bag, retval, result,
                   candidates, reference, relation>>

\* a variant of lines 136-139: the table is not cloned, setHash changes the
\* table distinguish received
distinguish_forEach_noClone ==
    /\ pc = "forEach"
    /\ Top.i <= Len(Top.group)
    /\ LET b == Top.group[Top.i]
           cloned_hash ==
               setHash(Top.hash, b,
                       hashTuple(<<getHash(Top.hash, b), Buffer_from("@")>>))
       IN  /\ callHashBnodes(cloned_hash)
           /\ stack' = [stack EXCEPT ![Len(stack)].hash = cloned_hash,
                                      ![Len(stack)].tried = Append(@, b)]
    /\ UNCHANGED <<heap, G, retval, result, candidates, calls,
                   reference, relation>>

\* distinguish lines 130-142: the next blank node of the group
distinguish_forEach ==
    /\ pc = "forEach"
    /\ Top.i <= Len(Top.group)
    /\ LET b == Top.group[Top.i]
           cloned_hash ==
               setHash(clone(Top.hash), b,
                       hashTuple(<<getHash(Top.hash, b), Buffer_from("@")>>))
       IN  /\ callHashBnodes(cloned_hash)
           /\ stack' = [stack EXCEPT ![Len(stack)].tried = Append(@, b)]
    /\ UNCHANGED <<heap, G, retval, result, candidates, calls,
                   reference, relation>>

\* a variant of line 147: every candidate replaces Gmin
updated_last(GC, Gmin) == <<GC>>

\* a variant of line 147: the test for an undefined Gmin is missing
updated_definedOnly(GC, Gmin) ==
    IF Gmin # Undefined /\ isSmaller(GC, Gmin[1]) THEN <<GC>> ELSE Gmin

\* distinguish line 147
updated(GC, Gmin) ==
    IF Gmin = Undefined \/ isSmaller(GC, Gmin[1]) THEN <<GC>> ELSE Gmin

\* distinguish lines 144-147: hash_prime is trivial
distinguish_leaf ==
    /\ pc = "return"
    /\ stack # <<>>
    /\ isTrivial(retval)
    /\ LET GC == relabel(G, orderedBlankIDs(retval))
       IN  /\ stack' = [stack EXCEPT ![Len(stack)].Gmin = updated(GC, @),
                                      ![Len(stack)].i = @ + 1]
           /\ candidates' = candidates \cup {GC}
    /\ pc' = "forEach"
    /\ UNCHANGED <<heap, G, hash, hashIm1, hashI, iterations, hash_bag, retval, result,
                   calls, reference, relation>>

\* a variant of lines 148-150: a table that is not trivial is relabelled too
\* and the search continues with the candidate as Gmin
distinguish_recurse_candidate ==
    /\ pc = "return"
    /\ stack # <<>>
    /\ ~isTrivial(retval)
    /\ callDistinguish(retval,
                       updated(relabel(G, orderedBlankIDs(retval)), Top.Gmin))
    /\ UNCHANGED <<heap, G, hash, hashIm1, hashI, iterations, hash_bag, retval,
                   result, candidates, reference, relation>>

\* distinguish lines 148-150: hash_prime is not trivial
distinguish_recurse ==
    /\ pc = "return"
    /\ stack # <<>>
    /\ ~isTrivial(retval)
    /\ callDistinguish(retval, Top.Gmin)
    /\ UNCHANGED <<heap, G, hash, hashIm1, hashI, iterations, hash_bag, retval, result,
                   candidates, reference, relation>>

\* distinguish line 153: the forEach is over, Gmin goes to the caller
distinguish_return ==
    /\ pc = "forEach"
    /\ Top.i > Len(Top.group)
    /\ LET rest == SubSeq(stack, 1, Len(stack) - 1)
       IN  IF rest = <<>>
           THEN /\ stack' = rest
                /\ result' = Top.Gmin
                /\ pc' = "done"
           ELSE /\ stack' = [rest EXCEPT ![Len(rest)].Gmin = Top.Gmin,
                                         ![Len(rest)].i = @ + 1]
                /\ pc' = "forEach"
                /\ UNCHANGED result
    /\ UNCHANGED <<heap, G, hash, hashIm1, hashI, iterations, hash_bag, retval,
                   candidates, calls, reference, relation>>

(***************************************************************************)
(* The driver (test.js, perform_test): after a first run it canonicalises  *)
(* a second dataset, obtained from the first input or from its result.     *)
(***************************************************************************)
Rename ==
    /\ pc = "done"
    /\ relation = "first"
    /\ result # Undefined
    /\ \E pi \in Bijections(SourceBlanks) :
          /\ renamed(G, pi) # G
          /\ startRun(renamed(G, pi), "renamed", sorted_nquads(result[1]))

Permute ==
    /\ pc = "done"
    /\ relation = "first"
    /\ result # Undefined
    /\ \E sigma \in Bijections(DOMAIN G) :
          /\ permuted(G, sigma) # G
          /\ startRun(permuted(G, sigma), "permuted", sorted_nquads(result[1]))

Again ==
    /\ pc = "done"
    /\ relation = "first"
    /\ result # Undefined
    /\ startRun(result[1], "canonical", sorted_nquads(result[1]))

Next ==
    \/ isoCanonicalize_call
    \/ hashBnodes_loop
    \/ isoCanonicalize_trivial
    \/ isoCanonicalize_distinguish
    \/ distinguish_forEach
    \/ distinguish_leaf
    \/ distinguish_recurse
    \/ distinguish_return
    \/ Rename
    \/ Permute
    \/ Again

Spec == Init /\ [][Next]_vars

\* the states in which Next can take a step
canStep ==
    \/ pc \in {"start", "return", "forEach"}
    \/ pc = "loop" /\ iterations < MaxIterations
    \/ pc = "done" /\ relation = "first" /\ result # Undefined

\* The program is sequential: a step that can be taken is taken.  This is
\* WF_vars(Next) with ENABLED <<Next>>_vars written out as canStep.
FairSpec == Spec /\ ([]<>(~canStep) \/ []<><<Next>>_vars)

(***************************************************************************)
(* The HashTable objects on their own: tables are constructed, cloned and  *)
(* given hashes in any order, up to MaxCalls calls on up to MaxTables      *)
(* tables.  The terms are two blank nodes and an IRI, the hashes the zero  *)
(* hash and a digest.                                                      *)
(***************************************************************************)
HeapTerms == {BlankLabel(1), BlankLabel(2), "<p>"}

HeapHashes == {hashZero, hashTerm("<p>")}

\* the variables of the run of isoCanonicalize
run == <<G, pc, hash, hashIm1, hashI, iterations, hash_bag, retval, stack,
         result, candidates, calls, reference, relation>>

logged(h, op, t, from, term, value) ==
    [h EXCEPT !.log = Append(@, [op |-> op, table |-> t, from |-> from,
                                 term |-> term, value |-> value])]

\* new HashTable()
New ==
    /\ Len(heap.log) < MaxCalls
    /\ Len(heap.tables) < MaxTables
    /\ heap' = logged(heap_HashTable(heap), "new", Len(heap.tables) + 1, 0,
                      "", <<>>)
    /\ UNCHANGED run

\* t.setHash(term, value)
SetHash ==
    /\ Len(heap.log) < MaxCalls
    /\ \E t \in DOMAIN heap.tables, term \in HeapTerms, value \in HeapHashes :
          heap' = logged(heap_setHash(heap, t, term, value), "setHash", t, 0,
                         term, value)
    /\ UNCHANGED run

\* t.clone()
Clone ==
    /\ Len(heap.log) < MaxCalls
    /\ Len(heap.tables) < MaxTables
    /\ \E t \in DOMAIN heap.tables :
          heap' = logged(heap_clone(heap, t), "clone", Len(heap.tables) + 1, t,
                         "", <<>>)
    /\ UNCHANGED run

HeapInit == Init /\ G = <<>>

HeapNext == New \/ SetHash \/ Clone

HeapSpec == HeapInit /\ [][HeapNext]_vars

(***************************************************************************)
(* Properties of a run and of two related runs.                            *)
(***************************************************************************)
finished == pc = "done" /\ result # Undefined

\* the blank nodes of a dataset, as a set
B(D) == Range(blanksOf(D))

\* the number of times x occurs in the list s
occurrences(s, x) == Cardinality({i \in DOMAIN s : s[i] = x})

sameMultiset(s, t) ==
    \A x \in Range(s) \cup Range(t) : occurrences(s, x) = occurrences(t, x)

\* C1: when the input of the second run is the input of the first run with
\* its blank nodes renamed by a bijection, quads in the same positions, the
\* two results have the same sorted N-Quads lines.
C1_RenamingInvariant ==
    (relation = "renamed" /\ finished) => sorted_nquads(result[1]) = reference

\* a renamed dataset of several blank nodes went through distinguish
C1_Witness ==
    /\ relation = "renamed"
    /\ finished
    /\ Cardinality(B(G)) >= 2
    /\ calls > 0
    /\ sorted_nquads(result[1]) = reference

\* C2: the result is the input with its blank nodes renamed by an injective
\* map: quad i of the result is quad i of the input with every blank node b
\* written pi[b] and every other term unchanged; the number of quads is that
\* of the input, duplicates included.
C2_BijectiveRenaming ==
    finished =>
        /\ Len(result[1]) = Len(G)
        /\ \E pi \in [B(G) -> SourceBlanks \cup CanonBlanks] :
              /\ \A a, b \in B(G) : pi[a] = pi[b] => a = b
              /\ result[1] = renamed(G, pi)

\* a dataset with a quad written twice and two blank nodes was relabelled
C2_Witness ==
    /\ finished
    /\ Len(G) >= 2
    /\ G[1] = G[2]
    /\ Cardinality(B(G)) >= 2
    /\ Len(result[1]) = Len(G)
    /\ B(result[1]) # B(G)

\* C3: the blank nodes of the result are exactly _:c14n_0 .. _:c14n_(n-1),
\* n the number of blank nodes of the input, and positions that hold
\* different blank nodes in the input hold different labels in the result.
C3_ContiguousLabels ==
    finished =>
        /\ B(result[1]) = {CanonLabel(k) : k \in 0..(Cardinality(B(G)) - 1)}
        /\ \A i, j \in DOMAIN G :
              /\ (isBlank(G[i].subject) /\ isBlank(G[j].object)
                    /\ G[i].subject # G[j].object)
                 => result[1][i].subject # result[1][j].object
              /\ (isBlank(G[i].subject) /\ isBlank(G[j].subject)
                    /\ G[i].subject # G[j].subject)
                 => result[1][i].subject # result[1][j].subject
              /\ (isBlank(G[i].object) /\ isBlank(G[j].object)
                    /\ G[i].object # G[j].object)
                 => result[1][i].object # result[1][j].object
              /\ (isBlank(G[i].graph) /\ isBlank(G[j].graph)
                    /\ G[i].graph # G[j].graph)
                 => result[1][i].graph # result[1][j].graph
              /\ (isBlank(G[i].graph) /\ isBlank(G[j].subject)
                    /\ G[i].graph # G[j].subject)
                 => result[1][i].graph # result[1][j].subject
              /\ (isBlank(G[i].graph) /\ isBlank(G[j].object)
                    /\ G[i].graph # G[j].object)
                 => result[1][i].graph # result[1][j].object

\* a dataset of MaxBlank source-labelled blank nodes was relabelled
C3_Witness ==
    /\ finished
    /\ relation = "first"
    /\ Cardinality(B(G)) = MaxBlank
    /\ B(result[1]) = {CanonLabel(k) : k \in 0..(MaxBlank - 1)}

\* C4: when the input of the second run is the input of the first run with
\* its quads listed in another order, a quad possibly written more than
\* once, the two results have the same sorted N-Quads lines.
C4_OrderIndependent ==
    (relation = "permuted" /\ finished) => sorted_nquads(result[1]) = reference

\* C5: when the input of the second run is the result of the first run, the
\* two results have the same N-Quads lines, each as often.
C5_Idempotent ==
    (relation = "canonical" /\ finished)
        => sameMultiset(nquads(result[1]), reference)

\* the result of a run through distinguish, a quad written twice, was
\* canonicalised again
C5_Witness ==
    /\ relation = "canonical"
    /\ finished
    /\ calls > 0
    /\ Len(G) >= 2
    /\ G[1] = G[2]
    /\ sameMultiset(nquads(result[1]), reference)

\* C6: the dataset the outermost call of distinguish returns is smaller, in
\* the sense of isSmaller, than every dataset relabelled at a trivial leaf.
C6_Minimal ==
    (finished /\ calls > 0) => \A C \in candidates : isSmaller(result[1], C)

\* the search produced a candidate that is not smaller than the result
C6_Witness ==
    /\ finished
    /\ calls > 0
    /\ \E C \in candidates : ~isSmaller(C, result[1])
    /\ \A C \in candidates : isSmaller(result[1], C)

\* C7: a dataset without blank nodes never enters distinguish, and its
\* result has the sorted N-Quads lines of the input.
C7_GroundStable ==
    B(G) = {} =>
        /\ calls = 0
        /\ pc # "forEach"
        /\ pc = "done" =>
              (result # Undefined /\ sorted_nquads(result[1]) = sorted_nquads(G))

\* a ground dataset of a quad of a named graph, written twice, was
\* canonicalised
C7_Witness ==
    /\ B(G) = {}
    /\ Len(G) = 2
    /\ G[1].graph # NoGraph
    /\ finished
    /\ calls = 0
    /\ result[1] = G

\* C8: every run ends.  A call of hashBnodes leaves its loop, with a table
\* for which isFixpoint holds, before the loop has run MaxIterations times,
\* and a run that has started reaches the return of isoCanonicalize; a table
\* relabelled on the way is trivial.
C8_Terminates ==
    /\ [](pc = "loop" => iterations < MaxIterations)
    /\ [](pc = "return" => isFixpoint(hashI, hashIm1))
    /\ [][candidates' # candidates => isTrivial(retval)]_vars
    /\ (pc = "loop") ~> (pc = "return")
    /\ (pc = "start") ~> finished

\* a run over MaxBlank blank nodes ended after nested calls of distinguish
C8_Witness ==
    /\ finished
    /\ Cardinality(B(G)) = MaxBlank
    /\ calls > MaxBlank
    /\ stack = <<>>

\* C9: isoCanonicalize returns a dataset: when the run went through
\* distinguish a trivial leaf was reached, and the Gmin of the outermost
\* call is one of the datasets relabelled there.
C9_ReturnsDataset ==
    pc = "done" =>
        /\ result # Undefined
        /\ Len(result[1]) = Len(G)
        /\ calls > 0 => (candidates # {} /\ result[1] \in candidates)

\* the outermost call of distinguish returned a dataset
C9_Witness ==
    /\ pc = "done"
    /\ calls > 0
    /\ candidates # {}
    /\ result # Undefined
    /\ result[1] \in candidates

\* the terms of two tables have the same hashes
sameHashes(t, u) ==
    /\ Range(t._term_to_hash) = Range(u._term_to_hash)
    /\ Range(t._bnode_to_hash) = Range(u._bnode_to_hash)

\* C10: the table hashBnodes returns is the table of the last pass of its
\* loop, the one for which isFixpoint was found true; it is the table the
\* call started from only when the two have the same hashes.
C10_ReturnsFixpoint ==
    pc = "return" => sameHashes(retval, hashI)

(***************************************************************************)
(* Properties of the tables of hashBnodes.                                 *)
(***************************************************************************)
\* a pass of the loop of hashBnodes has just ended
afterPass == pc \in {"loop", "return"} /\ iterations >= 1

\* the values accumulated for entry i of the bag, in ascending order
ascending(i) ==
    LET array == hash_bag[i].values
    IN  sort(array, [m, n \in DOMAIN array |-> hashCompare(array[m], array[n])])

\* C11: after a pass of the loop the hash of a blank node b is hashTuple
\* over the ascending list of b's previous hash and the contributions of the
\* pass; so two blank nodes with the same previous hash have the same new
\* hash exactly when they received the same contributions, each as often.
C11_BagHash ==
    afterPass =>
        /\ \A i \in DOMAIN hash_bag :
              getHash(hashI, hash_bag[i].key) = hashTuple(ascending(i))
        /\ \A i, j \in DOMAIN hash_bag :
              hashEqual(getHash(hashIm1, hash_bag[i].key),
                        getHash(hashIm1, hash_bag[j].key))
              => (hashEqual(getHash(hashI, hash_bag[i].key),
                            getHash(hashI, hash_bag[j].key))
                  <=> sameMultiset(Tail(hash_bag[i].values),
                                   Tail(hash_bag[j].values)))

\* two blank nodes have the same hash in a table
shareHash(table, x, y) == hashEqual(getHash(table, x), getHash(table, y))

\* C12: blank nodes that share a hash after a pass of the loop shared a hash
\* before it, in a call from isoCanonicalize and in a call from distinguish.
C12_NeverCoarsened ==
    afterPass =>
        \A x, y \in B(G) : shareHash(hashI, x, y) => shareHash(hashIm1, x, y)

\* C13 as stated: a call of hashBnodes runs its loop at most |B| times.
C13_AtMostB ==
    pc \in {"loop", "return"} => iterations <= Cardinality(B(G))

\* C13 as amended: a call of hashBnodes runs its loop at most |B| times, and
\* once when the dataset has no blank node.
C13_AtMostBOrOnce ==
    pc \in {"loop", "return"} =>
        iterations <= (IF B(G) = {} THEN 1 ELSE Cardinality(B(G)))

\* a call from distinguish left its loop after as many passes as there are
\* blank nodes
C13_Witness ==
    /\ pc = "return"
    /\ stack # <<>>
    /\ Cardinality(B(G)) = 2
    /\ iterations = 2

\* C14: isFixpoint holds exactly when the table is trivial or every two blank
\* nodes share a hash in the table exactly when they do in the previous one.
C14_FixpointIff ==
    afterPass =>
        (isFixpoint(hashI, hashIm1)
            <=> \/ isTrivial(hashI)
                \/ \A x, y \in B(G) :
                      shareHash(hashI, x, y) <=> shareHash(hashIm1, x, y))

\* a pass split a group of blank nodes and left another group whole: the
\* table is neither trivial nor a fixed point
C14_Witness ==
    /\ afterPass
    /\ pc = "loop"
    /\ ~isTrivial(hashI)
    /\ ~isFixpoint(hashI, hashIm1)
    /\ \E x, y \in B(G) : shareHash(hashIm1, x, y) /\ ~shareHash(hashI, x, y)

\* C15: the assertion of distinguish never fails: every table distinguish
\* receives has a group of more than one blank node; and a table of the run
\* is not trivial exactly when its partition has such a group.
C15_AssertionHolds ==
    /\ pc # "assertion failed"
    /\ \A k \in DOMAIN stack : stack[k].index # 0 /\ Len(stack[k].group) > 1
    /\ \A table \in {hash, hashIm1, hashI, retval} :
          ~isTrivial(table)
             <=> \E i \in DOMAIN hashPartition(table) :
                    Len(hashPartition(table)[i]) > 1

\* a nested call of distinguish found its group behind a group of one
C15_Witness ==
    /\ pc = "forEach"
    /\ Len(stack) >= 2
    /\ Top.index >= 2
    /\ Len(Top.group) > 1
    /\ ~isTrivial(Top.hash)

\* the table maps every term to the hash recorded in the mapping
sameMapping(table, mapping) == Range(table._term_to_hash) = Range(mapping)

\* the table hashBnodes was just called with, before its first pass
handed == pc = "loop" /\ iterations = 0 /\ stack # <<>>

\* the blank node of the branch distinguish is in
branch == Top.group[Top.i]

\* C16: in distinguish, the table handed to hashBnodes for the blank node b
\* of the selected group maps every term to the hash of the table
\* distinguish received, except b, which it maps to hashTuple(h(b), '@'),
\* whatever earlier branches and nested calls did; and the table every call
\* of distinguish received still has the mapping it had at the call, up to
\* and including the moment the call returns.
C16_BranchIsolation ==
    /\ \A k \in DOMAIN stack : sameMapping(stack[k].hash, stack[k].received)
    /\ handed =>
          /\ {e.key : e \in Range(hash._term_to_hash)} =
                {e.key : e \in Range(Top.received)}
          /\ \A e \in Range(Top.received) :
                getHash(hash, e.key) =
                   IF e.key = branch
                   THEN hashTuple(<<e.value, Buffer_from("@")>>)
                   ELSE e.value

\* C16 witness: hashBnodes is called for the second blank node of a group,
\* inside a nested call of distinguish, after the branch of the first blank
\* node has run
C16_Witness ==
    /\ handed
    /\ Len(stack) >= 2
    /\ Top.i = 2
    /\ getHash(hash, branch) # getHash(Top.hash, branch)

(***************************************************************************)
(* Properties of the HashTable objects.                                    *)
(***************************************************************************)
\* the terms the table t was given a hash for by the first n calls of the
\* log: by setHash on t or, before t was cloned, on the table it was cloned
\* from
RECURSIVE everSet(_, _)
everSet(t, n) ==
    {heap.log[k].term :
        k \in {m \in 1..n : heap.log[m].op = "setHash" /\ heap.log[m].table = t}}
    \cup UNION {everSet(heap.log[k].from, k - 1) :
        k \in {m \in 1..n : heap.log[m].op = "clone" /\ heap.log[m].table = t}}

\* the groups of the table (indices of _hash_values) that hold the term
groupsOf(table, term) ==
    {i \in DOMAIN table._hash_values :
        includes(table._hash_values[i].terms, term)}

consistent(table) ==
    /\ \A i \in DOMAIN table._hash_values :
          LET tuple == table._hash_values[i]
          IN  /\ Len(tuple.terms) > 0
              /\ Cardinality(Range(tuple.terms)) = Len(tuple.terms)
              /\ \A j \in DOMAIN table._hash_values :
                    hashEqual(tuple.hash, table._hash_values[j].hash) => i = j
              /\ \A term \in Range(tuple.terms) : has(table._term_to_hash, term)
    /\ \A e \in Range(table._term_to_hash) :
          /\ Cardinality(groupsOf(table, e.key)) = 1
          /\ \A i \in groupsOf(table, e.key) :
                table._hash_values[i].hash = getHash(table, e.key)
    /\ Range(table._bnode_to_hash) =
          {e \in Range(table._term_to_hash) : isBlank(e.key)}

\* C17: after any sequence of calls of setHash and clone, in every table
\* the terms that were ever set are the keys of the forward map, each of
\* them is in exactly one group of _hash_values and the hash of that group
\* is getHash(term); no group is empty, no two groups have equal hashes, and
\* _bnode_to_hash holds exactly the entries of _term_to_hash whose key is a
\* blank node.
C17_Consistent ==
    \A t \in DOMAIN heap.tables :
       LET table == HashTableOf(heap, t)
       IN  /\ {e.key : e \in Range(table._term_to_hash)} = everSet(t, Len(heap.log))
           /\ consistent(table)

\* C17 witness: a table that was cloned from another has had a term moved
\* from a group of two terms to a new group
C17_Witness ==
    /\ Len(heap.log) = MaxCalls
    /\ heap.log[MaxCalls].op = "setHash"
    /\ heap.log[MaxCalls].table = 2
    /\ heap.log[2].op = "clone"
    /\ LET table == HashTableOf(heap, 2)
       IN  /\ Len(table._hash_values) = 2
           /\ Len(table._term_to_hash) = 2

\* what a caller can see of a table
observed(h, t) ==
    LET table == HashTableOf(h, t)
    IN  [getHash         |-> Range(table._term_to_hash),
         hashPartition   |-> hashPartition(table),
         isTrivial       |-> isTrivial(table),
         orderedBlankIDs |-> orderedBlankIDs(table)]

\* the call that leads from the state to the next one
made == heap'.log[Len(heap'.log)]

\* C18: the table clone() returns maps every term to the hash the cloned
\* table maps it to, and a call of setHash on a table changes getHash,
\* hashPartition, isTrivial and orderedBlankIDs of no other table: neither
\* of a table it was cloned from nor of a table cloned from it.
C18_CloneIndependent ==
    [][ /\ made.op = "clone" =>
              observed(heap', made.table).getHash = observed(heap, made.from).getHash
        /\ \A t \in DOMAIN heap.tables :
              t # made.table \/ made.op # "setHash" =>
                 observed(heap', t) = observed(heap, t) ]_vars

\* C18 witness: a table with two terms was cloned, then setHash was called
\* on the clone and then on the original, and the two tables differ
C18_Witness ==
    /\ Len(heap.log) = MaxCalls
    /\ heap.log[2].op = "setHash"
    /\ heap.log[3].op = "clone"
    /\ heap.log[4].op = "setHash" /\ heap.log[4].table = 2
    /\ heap.log[5].op = "setHash" /\ heap.log[5].table = 1
    /\ observed(heap, 1).getHash # observed(heap, 2).getHash
    /\ observed(heap, 1).getHash # {}

\* the fields of a table after a call are the ones setHash and clone of the
\* model of a run compute from the fields before the call
ValueSemantics ==
    [][ /\ made.op = "setHash" =>
              HashTableOf(heap', made.table) =
                 setHash(HashTableOf(heap, made.table), made.term, made.value)
        /\ made.op = "clone" =>
              HashTableOf(heap', made.table) = clone(HashTableOf(heap, made.from)) ]_vars

(***************************************************************************)
(* Properties of hashPartition and of isSmaller.                           *)
(***************************************************************************)
\* the blank nodes of a table
bnodes(table) == {e.key : e \in Range(table._bnode_to_hash)}

\* the groups of blank nodes of _hash_values, in the order of _hash_values
blankGroups(table) ==
    LET hv == table._hash_values
        only == [i \in DOMAIN hv |-> SelectSeq(hv[i].terms, isBlank)]
    IN  SelectSeq(only, LAMBDA group : Len(group) # 0)

partitions(table) ==
    LET P == hashPartition(table)
    IN  /\ \A b \in bnodes(table) :
              Cardinality({<<i, j>> \in (DOMAIN P) \X (1..MaxBlank) :
                              j \in DOMAIN P[i] /\ P[i][j] = b}) = 1
        /\ \A i \in DOMAIN P : \A j \in DOMAIN P[i] :
              isBlank(P[i][j]) /\ P[i][j] \in bnodes(table)
        /\ \A x, y \in bnodes(table) :
              (\E i \in DOMAIN P : includes(P[i], x) /\ includes(P[i], y))
                 <=> shareHash(table, x, y)

ordered(table) ==
    LET P == hashPartition(table)
    IN  \A i, j \in DOMAIN P :
           i < j =>
              \/ Len(P[i]) < Len(P[j])
              \/ /\ Len(P[i]) = Len(P[j])
                 /\ hashCompare(getHash(table, P[i][1]),
                                getHash(table, P[j][1])) <= 0

\* the tables of the run
tables ==
    {hash, hashIm1, hashI, retval} \cup {stack[k].hash : k \in DOMAIN stack}

\* C19: the groups hashPartition returns partition the blank nodes of the
\* table: every blank node is in exactly one group, once; a group holds
\* blank nodes only; two blank nodes are in the same group exactly when
\* their hashes are equal.  The groups come in ascending size and, at equal
\* size, in ascending hash.
C19_Partition == \A table \in tables : partitions(table) /\ ordered(table)

\* C19 witness: hashPartition returns the groups of a table in another
\* order than _hash_values has them, two of them of the same size
C19_Witness ==
    /\ afterPass
    /\ hashPartition(hashI) # blankGroups(hashI)
    /\ \E i, j \in DOMAIN hashPartition(hashI) :
          i # j /\ Len(hashPartition(hashI)[i]) = Len(hashPartition(hashI)[j])

\* the multiset difference of two sorted lists of lines: a line written m
\* times in array and n times in other stays m - n times
multisetDifference(array, other) ==
    LET kept == SelectSeq([i \in DOMAIN array |-> i],
                    LAMBDA i : occurrences(SubSeq(array, 1, i), array[i])
                                  > occurrences(other, array[i]))
    IN  [k \in DOMAIN kept |-> array[kept[k]]]

\* isSmaller as stated, on the multiset differences
isSmaller_multiset(G_Dataset, H_Dataset) ==
    LET Gs  == sorted_nquads(G_Dataset)
        Hs  == sorted_nquads(H_Dataset)
        GmH == multisetDifference(Gs, Hs)
        HmG == multisetDifference(Hs, Gs)
    IN  \/ Len(GmH) = 0
        \/ Len(HmG) = 0
        \/ \E i \in DOMAIN GmH : lineCompare(GmH[i], HmG[1]) < 0

\* distinguish is about to compare the candidate of a leaf with Gmin
comparing ==
    /\ pc = "return"
    /\ stack # <<>>
    /\ isTrivial(retval)
    /\ Top.Gmin # Undefined

\* C20: isSmaller(G, H) is true exactly when the multiset difference G\H of
\* the sorted lines is empty, or H\G is empty, or some line of G\H is
\* smaller than the smallest line of H\G; stated for the candidate and the
\* Gmin that line 147 of distinguish compares.
C20_IsSmallerMultiset ==
    comparing =>
       LET GC == relabel(G, orderedBlankIDs(retval))
       IN  isSmaller(GC, Top.Gmin[1]) <=> isSmaller_multiset(GC, Top.Gmin[1])

(***************************************************************************)
(* Properties of distinguish.                                              *)
(***************************************************************************)
\* hashBnodes has returned hash_prime to distinguish
returned == pc = "return" /\ stack # <<>>

\* the candidate of lines 144-147 for the table hashBnodes returned
GC == relabel(G, orderedBlankIDs(retval))

\* C21: a step gives the Gmin of a call of distinguish a new value only at
\* a leaf, where the table hashBnodes returned is trivial and the value is
\* G relabelled by orderedBlankIDs of that table, with as many blank nodes
\* as G, or by handing a Gmin on: to a nested call or back from it.  When
\* the table returned is not trivial the step is the nested call, with the
\* Gmin of the caller, and no Gmin changes.
C21_OnlyTrivialLeaves ==
    [][ /\ \A k \in DOMAIN stack' :
              \/ k \in DOMAIN stack /\ stack'[k].Gmin = stack[k].Gmin
              \/ stack # <<>> /\ Len(stack') # Len(stack)
                    /\ k = Len(stack') /\ stack'[k].Gmin = Top.Gmin
              \/ stack = <<>> /\ stack'[k].Gmin = Undefined
              \/ /\ returned
                 /\ isTrivial(retval)
                 /\ k = Len(stack)
                 /\ stack'[k].Gmin = <<GC>>
                 /\ Cardinality(B(GC)) = Cardinality(B(G))
        /\ returned /\ ~isTrivial(retval) =>
              /\ Len(stack') = Len(stack) + 1
              /\ stack'[Len(stack')].Gmin = Top.Gmin
              /\ \A k \in DOMAIN stack : stack'[k].Gmin = stack[k].Gmin
              /\ candidates' = candidates ]_vars

\* C21 witness: a nested call of distinguish has been entered with the
\* Gmin an earlier branch of its caller found at trivial leaves
C21_Witness ==
    /\ pc = "forEach"
    /\ Len(stack) >= 2
    /\ Top.i = 1
    /\ Top.Gmin # Undefined
    /\ Top.Gmin[1] \in candidates

\* the blank nodes of the table that have the hash of x
class(table, x) == {y \in bnodes(table) : shareHash(table, x, y)}

\* x is in a group that comes before the group of y: the group is smaller
\* or, at the same size, its hash is smaller
lower(table, x, y) ==
    \/ Cardinality(class(table, x)) < Cardinality(class(table, y))
    \/ /\ Cardinality(class(table, x)) = Cardinality(class(table, y))
       /\ hashCompare(getHash(table, x), getHash(table, y)) < 0

\* the blank nodes of the lowest group of more than one blank node
lowest(table) ==
    {x \in bnodes(table) :
        /\ Cardinality(class(table, x)) > 1
        /\ \A y \in bnodes(table) :
              Cardinality(class(table, y)) > 1 => ~lower(table, y, x)}

\* the forEach of the innermost call of distinguish is over
exhausted == pc = "forEach" /\ stack # <<>> /\ Top.i > Len(Top.group)

builtTables ==
    (IF pc # "start" THEN {hash, hashI} ELSE {})
    \cup (IF pc # "start" /\ iterations >= 1 THEN {hashIm1} ELSE {})
    \cup (IF pc # "start" /\ (pc # "loop" \/ stack # <<>>) THEN {retval} ELSE {})
    \cup {stack[k].hash : k \in DOMAIN stack}

wellHashed(table) ==
    \A term \in Range(terms(G)) :
       /\ has(table._term_to_hash, term)
       /\ ~isBlank(term) => getHash(table, term) = hashTerm(Buffer_from(term))

\* C23: every table built during a run has a hash for every term of G, and
\* the hash of a term that is not a blank node is hashTerm(term), the hash
\* of the initialisation: the passes of hashBnodes and the clones of
\* distinguish change hashes of blank nodes only.
C23_NonBlankKept == \A table \in builtTables : wellHashed(table)

\* C23 witness: in a call made by distinguish, a pass of hashBnodes has
\* given a blank node a new hash, after distinguish gave one its own
C23_Witness ==
    /\ afterPass
    /\ stack # <<>>
    /\ \E b \in B(G) : getHash(hash, b) # hashZero
    /\ \E b \in B(G) : getHash(hashI, b) # getHash(hash, b)
    /\ \E term \in Range(terms(G)) : ~isBlank(term)

====
